---- MODULE Spec2Model ----
(***************************************************************************)
(* Model of ImportDatabase.get_worksheet_rows of                           *)
(* _import_picture_database.py: the generator that turns the rows of a     *)
(* worksheet into PictureParameters records, with its collaborators (the   *)
(* cursor, the log file, the class registry of the host application and    *)
(* the consumer that drives the generator).                                *)
(*                                                                         *)
(* Values.  A worksheet cell is None, a text, an int or a float.  A cell   *)
(* is the record [t, s, n]: t is the Python type, s the text of a str,     *)
(* n the number of an int, or the number of a float in units of 1/10000.   *)
(* A text that the code takes apart character by character (the symbol     *)
(* folder) is a sequence of one-character strings.                         *)
(***************************************************************************)
EXTENDS Integers, Sequences, FiniteSets, TLC

VARIABLES
    settings,   \* self.settings, with settings.pictureParameters and settings.pictureRecord
    connected,  \* self.connected
    pc,         \* where the generator stands: "start", "loop", "yield198", "yield533", "done", "raised", "closed"
    nrows,      \* len(rows), the rows cursor.fetchall() returned
    i,          \* the number of rows the for loop has taken
    heap,       \* the PictureParameters objects constructed so far
    out,        \* what the consumer received, one reference per yield
    log,        \* the lines written to log_file
    classes,    \* the class names vs.GetObject finds
    active,     \* vs.ActiveClass()
    calls,      \* the arguments of the vs.NameClass calls made so far
    cursor,     \* "none", "open" or "closed"
    last        \* what the latest loop iteration did (history, read by the properties only)

vars == <<settings, connected, pc, nrows, i, heap, out, log, classes, active, calls, cursor, last>>

(***************************************************************************)
(* Bounds                                                                  *)
(***************************************************************************)
MaxRows == 2

(***************************************************************************)
(* Cells                                                                   *)
(***************************************************************************)
None == [t |-> "none", s |-> "", n |-> 0]

StrCell(text) == [t |-> "str", s |-> text, n |-> 0]

IntCell(k) == [t |-> "int", s |-> "", n |-> k]

\* A float, given in units of 1/10000: FloatCell(125000) is 12.5
FloatCell(k) == [t |-> "float", s |-> "", n |-> k]

\* Python's truth value of a cell: `if cell_value`
Truthy(c) ==
    CASE c.t = "none" -> FALSE
      [] c.t = "str" -> c.s # ""
      [] OTHER -> c.n # 0

\* cell_value != "text": a value that is no str differs from every str
NotText(c, text) == c.t # "str" \/ c.s # text

(***************************************************************************)
(* Rendering of numbers                                                    *)
(***************************************************************************)
Pad2(k) == IF k < 10 THEN "0" \o ToString(k) ELSE ToString(k)

Pad3(k) == IF k < 100 THEN "0" \o Pad2(k) ELSE ToString(k)

\* The digits after the point of k/1000, as repr() prints them
FracDigits(k) ==
    IF k = 0 THEN "0"
    ELSE IF k % 100 = 0 THEN ToString(k \div 100)
    ELSE IF k % 10 = 0 THEN Pad2(k \div 10)
    ELSE Pad3(k)

\* round(value, 3) of a float in units of 1/10000, in units of 1/1000.  The
\* inputs never end in the digit 5, where the binary value decides the tie.
RoundMilli(n) == (n + 5) \div 10

\* Mutant of RoundStr: a float with no fraction loses its point
RoundStr_NoFraction(v) ==
    IF v.t = "int" \/ RoundMilli(v.n) % 1000 = 0
    THEN ToString(IF v.t = "int" THEN v.n ELSE RoundMilli(v.n) \div 1000)
    ELSE ToString(RoundMilli(v.n) \div 1000) \o "." \o FracDigits(RoundMilli(v.n) % 1000)

\* str(round(value, 3)): an int stays an int, a float keeps its point
RoundStr(v) ==
    IF v.t = "int" THEN ToString(v.n)
    ELSE ToString(RoundMilli(v.n) \div 1000) \o "." \o FracDigits(RoundMilli(v.n) % 1000)

\* The digits after the point of k/10000, as repr() prints them
FracDigits4(k) ==
    IF k % 10 = 0 THEN FracDigits(k \div 10)
    ELSE IF k < 1000 THEN "0" \o Pad3(k) ELSE ToString(k)

\* to_string(var); None stands for the None the function returns when it falls through
to_string(var) ==
    CASE var.t = "str" -> var
      [] var.t = "int" -> StrCell(ToString(var.n))
      [] var.t = "float" ->
            IF var.n % 10000 = 0 THEN StrCell(ToString(var.n \div 10000))
            ELSE StrCell(ToString(var.n \div 10000) \o "." \o FracDigits4(var.n % 10000))
      [] OTHER -> None

\* make_year_string(source)
make_year_string(source) ==
    CASE source.t = "str" -> source.s
      [] source.t = "float" -> ToString(source.n \div 10000)
      [] source.t = "int" -> ToString(source.n)
      [] OTHER -> "Unknown"

(***************************************************************************)
(* vs.ValidNumStr: the host application's parser of numeric text.  It      *)
(* answers (ok, value) with value a float.  The texts the worksheets and   *)
(* settings of this model hold, and their values in units of 1/10000.      *)
(***************************************************************************)
NumericTexts == ("10" :> 100000) @@ ("7.25" :> 72500) @@ ("1.50" :> 15000)

ValidNumStr(text) ==
    IF text \in DOMAIN NumericTexts
    THEN [ok |-> TRUE, value |-> FloatCell(NumericTexts[text])]
    ELSE [ok |-> FALSE, value |-> None]

\* valid, value = vs.ValidNumStr(cell_value) if isinstance(cell_value, str) else [True, cell_value]
Validate(cell_value) ==
    IF cell_value.t = "str" THEN ValidNumStr(cell_value.s)
    ELSE [ok |-> TRUE, value |-> cell_value]

\* if valid and value is not None
Accepted(cell_value) == Validate(cell_value).ok /\ Validate(cell_value).value.t # "none"

(***************************************************************************)
(* The worksheet.  A row maps the lower-cased column names to cells; the   *)
(* settings name the columns as the dialog shows them.                     *)
(***************************************************************************)
Manual == "-- Manual"

DontImport == "-- Don't Import"

\* str.lower() on the column names of the worksheet
Lower(name) ==
    CASE name = "Name" -> "name"
      [] name = "WImage" -> "wimage"
      [] name = "WFrame" -> "wframe"
      [] name = "WMat" -> "wmat"
      [] name = "WGlass" -> "wglass"
      [] name = "ImgW" -> "imgw"
      [] name = "ImgH" -> "imgh"
      [] name = "WinW" -> "winw"
      [] name = "WinH" -> "winh"
      [] name = "Num" -> "num"
      [] name = "FClass" -> "fclass"
      [] name = "MClass" -> "mclass"
      [] name = "GClass" -> "gclass"
      [] name = "Folder" -> "folder"
      [] name = "PClass" -> "pclass"
      [] name = "Title" -> "title"
      [] name = "Year" -> "year"

\* A row with every field present and valid
BaseRow ==
    [name |-> StrCell("A"),
     wimage |-> StrCell("Yes"), wframe |-> StrCell("Yes"),
     wmat |-> StrCell("Yes"), wglass |-> StrCell("Yes"),
     imgw |-> FloatCell(125000), imgh |-> IntCell(7),
     winw |-> StrCell("10"), winh |-> FloatCell(71234),
     num |-> IntCell(2),
     fclass |-> StrCell("Oak"), mclass |-> StrCell("Oak"), gclass |-> StrCell("Oak"),
     folder |-> <<"a", " ", "b">>,
     pclass |-> StrCell("Art"), title |-> StrCell("T"), year |-> FloatCell(19990000)]

\* What a presence column may hold instead of "Yes"
FlagCells == {None, StrCell(""), StrCell("False"), StrCell("No"), IntCell(0), StrCell("1")}

\* The two of them the matboard and glass columns of this worksheet hold
OffCells == {StrCell("No"), IntCell(0)}

\* What a numeric column may hold instead of a number
BadNumbers == {None, StrCell("abc")}

\* The rows that differ from BaseRow in one column
OneOff ==
    {[BaseRow EXCEPT !.name = c] : c \in {None, StrCell(""), FloatCell(70000)}}
    \cup {[BaseRow EXCEPT !.wimage = c] : c \in FlagCells}
    \cup {[BaseRow EXCEPT !.wframe = c] : c \in FlagCells}
    \cup {[BaseRow EXCEPT !.wmat = c] : c \in OffCells}
    \cup {[BaseRow EXCEPT !.wglass = c] : c \in OffCells}
    \cup {[BaseRow EXCEPT !.imgw = c] : c \in BadNumbers \cup {StrCell("7.25")}}
    \cup {[BaseRow EXCEPT !.imgh = c] : c \in BadNumbers}
    \cup {[BaseRow EXCEPT !.winw = c] : c \in BadNumbers}
    \cup {[BaseRow EXCEPT !.winh = c] : c \in BadNumbers}
    \cup {[BaseRow EXCEPT !.num = c] : c \in BadNumbers \cup {FloatCell(70000)}}
    \cup {[BaseRow EXCEPT !.fclass = StrCell("Elm")],
          [BaseRow EXCEPT !.mclass = StrCell("Elm")],
          [BaseRow EXCEPT !.gclass = StrCell("Elm")]}
    \cup {[BaseRow EXCEPT !.folder = f] : f \in {<<>>, <<"a", " ", " ", "b">>, <<"a", " ", " ", " ", "b">>}}
    \cup {[BaseRow EXCEPT !.year = c] : c \in {None, StrCell("c. 1900")}}

\* Rows that differ from BaseRow in two columns, for the rules that join two fields
TwoOff ==
    {[BaseRow EXCEPT !.wimage = StrCell("False"), !.winw = c] : c \in BadNumbers}
    \cup {[BaseRow EXCEPT !.wimage = StrCell("False"), !.winh = None],
          [BaseRow EXCEPT !.imgw = None, !.winw = None],
          [BaseRow EXCEPT !.wframe = StrCell("No"), !.num = FloatCell(70000)]}

\* The rows the query may return
RowSet == {BaseRow} \cup OneOff \cup TwoOff

(***************************************************************************)
(* PictureParameters, PictureRecord and ImportSettings                     *)
(***************************************************************************)
\* PictureParameters(): the fields of a new record.  The numeric and class
\* fields are texts; pictureClass holds whatever cell was assigned to it.
NewPicture(glass_class) ==
    [pictureName |-> "",
     withImage |-> "", imageWidth |-> "", imageHeight |-> "", imagePosition |-> "",
     withFrame |-> "", frameWidth |-> "", frameHeight |-> "", frameThickness |-> "",
     frameDepth |-> "", frameClass |-> "", frameTextureScale |-> "",
     frameTextureRotation |-> "",
     withMatboard |-> "", windowWidth |-> "", windowHeight |-> "",
     matboardPosition |-> "", matboardClass |-> "", matboardTextureScale |-> "",
     matboardTextureRotat |-> "",
     withGlass |-> "", glassPosition |-> "", glassClass |-> glass_class,
     createSymbol |-> "", symbolFolder |-> <<>>, pictureClass |-> StrCell("")]

\* The class a new PictureParameters names as its glass class: none, or one
\* the document has
DefaultGlassClasses == {"", "Oak"}

\* settings.pictureRecord before the import
NewRecord ==
    [imageSize |-> StrCell(""), frameSize |-> StrCell(""), windowSize |-> StrCell(""),
     artworkTitle |-> StrCell(""), authorName |-> StrCell(""),
     artworkCreationDate |-> StrCell(""), artworkMedia |-> StrCell(""),
     roomLocation |-> StrCell(""), artworkSource |-> StrCell(""),
     registrationNumber |-> StrCell(""), authorBirthCountry |-> StrCell(""),
     authorBirthDate |-> StrCell(""), authorDeathDate |-> StrCell(""),
     designNotes |-> StrCell(""), exhibitionMedia |-> StrCell("")]

\* settings.pictureParameters: the values of the fields set to "-- Manual".
\* mode "bad" is a session whose manual image position is no number and
\* whose manual glass flag is off.
ManualValues(mode) ==
    [withImage |-> "True", withFrame |-> "True", withMatboard |-> "True",
     withGlass |-> IF mode = "bad" THEN "False" ELSE "True",
     imagePosition |-> IF mode = "bad" THEN StrCell("abc") ELSE StrCell("1.50"),
     frameThickness |-> StrCell("1.50"), frameDepth |-> FloatCell(70000),
     frameClass |-> "Pine",
     frameTextureScale |-> IntCell(1), frameTextureRotation |-> IntCell(0),
     matboardPosition |-> StrCell("1.50"), matboardClass |-> "Pine",
     matboardTextureScale |-> IntCell(1), matboardTextureRotat |-> IntCell(0),
     glassPosition |-> StrCell("7.25"), glassClass |-> "Pine",
     pictureClass |-> StrCell("Art")]

\* The selector of a field that may be manual
Sel(mode, column) == IF mode = "col" THEN column ELSE Manual

\* The selector of a metadata field
MetaSel(extras, column) == IF extras THEN column ELSE DontImport

\* An ImportSettings: create is createMissingClasses, mode says which fields
\* are manual, extras turns the symbol, class and metadata sections on, and
\* thick makes the frame thickness a column
MkSettings(create, mode, extras, thick) ==
    [excelSheetName |-> "Sheet1$",
     createMissingClasses |-> create,
     imageTextureSelector |-> "Name",
     withImageSelector |-> Sel(mode, "WImage"),
     imageWidthSelector |-> "ImgW",
     imageHeightSelector |-> "ImgH",
     imagePositionSelector |-> Sel(mode, "Num"),
     withFrameSelector |-> Sel(mode, "WFrame"),
     frameWidthSelector |-> "Num",
     frameHeightSelector |-> "Num",
     frameThicknessSelector |-> IF thick THEN "Num" ELSE Manual,
     frameDepthSelector |-> Sel(mode, "Num"),
     frameClassSelector |-> Sel(mode, "FClass"),
     frameTextureScaleSelector |-> Sel(mode, "Num"),
     frameTextureRotationSelector |-> Sel(mode, "Num"),
     withMatboardSelector |-> Sel(mode, "WMat"),
     windowWidthSelector |-> "WinW",
     windowHeightSelector |-> "WinH",
     matboardPositionSelector |-> Sel(mode, "Num"),
     matboardClassSelector |-> Sel(mode, "MClass"),
     matboardTextureScaleSelector |-> Sel(mode, "Num"),
     matboardTextureRotatSelector |-> Sel(mode, "Num"),
     withGlassSelector |-> Sel(mode, "WGlass"),
     glassPositionSelector |-> Sel(mode, "Num"),
     glassClassSelector |-> Sel(mode, "GClass"),
     symbolCreateSymbol |-> IF extras THEN "True" ELSE "False",
     symbolFolderSelector |-> Sel(mode, "Folder"),
     symbolFolder |-> <<"M", "y">>,
     classAssignPictureClass |-> IF extras THEN "True" ELSE "False",
     classClassPictureSelector |-> Sel(mode, "PClass"),
     metaImportMetadata |-> IF extras THEN "True" ELSE "False",
     metaArtworkTitleSelector |-> MetaSel(extras, "Title"),
     metaAuthorNameSelector |-> MetaSel(extras, "Title"),
     metaArtworkCreationDateSelector |-> MetaSel(extras, "Year"),
     metaArtworkMediaSelector |-> DontImport,
     metaRoomLocationSelector |-> DontImport,
     metaArtworkSourceSelector |-> DontImport,
     metaRegistrationNumberSelector |-> MetaSel(extras, "Num"),
     metaAuthorBirthCountrySelector |-> DontImport,
     metaAuthorBirthDateSelector |-> MetaSel(extras, "Year"),
     metaAuthorDeathDateSelector |-> MetaSel(extras, "Year"),
     metaDesignNotesSelector |-> DontImport,
     metaExhibitionMediaSelector |-> MetaSel(extras, "Title"),
     pictureParameters |-> ManualValues(mode),
     pictureRecord |-> NewRecord]

\* The import sessions: <<create, mode, extras, thick>>
Sessions ==
    {<<FALSE, "col", FALSE, FALSE>>, <<TRUE, "col", FALSE, FALSE>>,
     <<TRUE, "col", TRUE, FALSE>>, <<FALSE, "col", TRUE, TRUE>>,
     <<FALSE, "ok", TRUE, FALSE>>, <<FALSE, "bad", FALSE, FALSE>>}

SettingsSet == {MkSettings(p[1], p[2], p[3], p[4]) : p \in Sessions}

\* The classes of the document and its active class before the import
InitialClasses == {"None", "Oak"}

InitialActive == "None"

(***************************************************************************)
(* One loop iteration works on a context c: the record being filled        *)
(* (c.pic), valid_picture (c.valid), the four message buffers, the class   *)
(* registry (c.classes, c.active, c.calls), settings.pictureRecord         *)
(* (c.record) and c.raised, set when a statement raised.  A message is     *)
(* [text, arg]: the fixed words and the value formatted into them.         *)
(***************************************************************************)
Message(text, arg) == [text |-> text, arg |-> arg]

\* The six lines every numeric field repeats: validate cell_value, then
\* store str(round(value, 3)) or append a message and clear valid_picture
NumberField(c, cell_value, field, buffer, text) ==
    IF Accepted(cell_value)
    THEN [c EXCEPT !.pic[field] = RoundStr(Validate(cell_value).value)]
    ELSE [c EXCEPT ![buffer] = Append(@, Message(text, cell_value)), !.valid = FALSE]

\* cell_value of a field that may be manual
Resolve(s, row, selector, manual_value) ==
    IF selector = Manual THEN manual_value ELSE row[Lower(selector)]

\* vs.GetObject(name): 0 when the document has nothing of that name
GetObject(c, name) == IF name \in c.classes THEN 1 ELSE 0

\* vs.NameClass(name): makes the class if it is missing, and makes it active
NameClass(c, name) ==
    [c EXCEPT !.classes = @ \cup {name}, !.active = name, !.calls = Append(@, name)]

\* active_class = vs.ActiveClass(); vs.NameClass(cell_value); vs.NameClass(active_class)
CreateClass(c, name) == NameClass(NameClass(c, name), c.active)

\* The presence test of the image, matboard and glass sections
PresentIfTruthy(cell_value) ==
    Truthy(cell_value) /\ NotText(cell_value, "") /\ NotText(cell_value, "False")
        /\ NotText(cell_value, "No")

\* The presence test of the frame section
PresentIfNotNone(cell_value) ==
    cell_value.t # "none" /\ NotText(cell_value, "") /\ NotText(cell_value, "False")
        /\ NotText(cell_value, "No")

Flag(present) == IF present THEN "True" ELSE "False"

\* Lines 206-213
ImageFlag(c, row, s) ==
    IF s.withImageSelector = Manual
    THEN [c EXCEPT !.pic.withImage = s.pictureParameters.withImage]
    ELSE [c EXCEPT !.pic.withImage = Flag(PresentIfTruthy(row[Lower(s.withImageSelector)]))]

\* Lines 216-222
ImageWidth(c, row, s) ==
    NumberField(c, row[Lower(s.imageWidthSelector)],
                "imageWidth", "image_message", "- Invalid Image Width")

\* Lines 224-230
ImageHeight(c, row, s) ==
    NumberField(c, row[Lower(s.imageHeightSelector)],
                "imageHeight", "image_message", "- Invalid Image Height")

\* Mutant of ImagePosition: a manual value is stored as it is, unvalidated
ImagePosition_ManualUnchecked(c, row, s) ==
    IF s.imagePositionSelector = Manual
    THEN [c EXCEPT !.pic.imagePosition = to_string(s.pictureParameters.imagePosition).s]
    ELSE NumberField(c, row[Lower(s.imagePositionSelector)],
                     "imagePosition", "image_message", "- Invalid Image Position")

\* Lines 232-241
ImagePosition(c, row, s) ==
    NumberField(c, Resolve(s, row, s.imagePositionSelector, s.pictureParameters.imagePosition),
                "imagePosition", "image_message", "- Invalid Image Position")

\* Lines 215-241
ImageDetails(c, row, s) ==
    IF c.pic.withImage = "True"
    THEN ImagePosition(ImageHeight(ImageWidth(c, row, s), row, s), row, s)
    ELSE c

\* Lines 206-241
ImageSection(c, row, s) == ImageDetails(ImageFlag(c, row, s), row, s)

\* Lines 244-251
FrameFlag(c, row, s) ==
    IF s.withFrameSelector = Manual
    THEN [c EXCEPT !.pic.withFrame = s.pictureParameters.withFrame]
    ELSE [c EXCEPT !.pic.withFrame = Flag(PresentIfNotNone(row[Lower(s.withFrameSelector)]))]

\* Lines 254-260
FrameWidth(c, row, s) ==
    NumberField(c, row[Lower(s.frameWidthSelector)],
                "frameWidth", "frame_message", "- Invalid Frame Width")

\* Lines 262-268
FrameHeight(c, row, s) ==
    NumberField(c, row[Lower(s.frameHeightSelector)],
                "frameHeight", "frame_message", "- Invalid Frame Height")

\* Lines 270-279.  The column is looked up through
\* settings.pictureParameters.frameThicknessSelector, an attribute a
\* PictureParameters does not have: the statement raises AttributeError
FrameThickness(c, row, s) ==
    IF s.frameThicknessSelector = Manual
    THEN NumberField(c, s.pictureParameters.frameThickness,
                     "frameThickness", "frame_message", "- Invalid Frame Thickness")
    ELSE IF "frameThicknessSelector" \in DOMAIN s.pictureParameters
         THEN NumberField(c, row[Lower(s.pictureParameters.frameThicknessSelector)],
                          "frameThickness", "frame_message", "- Invalid Frame Thickness")
         ELSE [c EXCEPT !.raised = TRUE]

\* Lines 281-290
FrameDepth(c, row, s) ==
    NumberField(c, Resolve(s, row, s.frameDepthSelector, s.pictureParameters.frameDepth),
                "frameDepth", "frame_message", "- Invalid Frame Depth")

\* Lines 292-307
FrameClass(c, row, s) ==
    IF s.frameClassSelector = Manual
    THEN [c EXCEPT !.pic.frameClass = s.pictureParameters.frameClass]
    ELSE IF GetObject(c, row[Lower(s.frameClassSelector)].s) = 0
         THEN IF s.createMissingClasses
              THEN [CreateClass(c, row[Lower(s.frameClassSelector)].s)
                       EXCEPT !.pic.frameClass = row[Lower(s.frameClassSelector)].s]
              ELSE [c EXCEPT !.frame_message =
                                 Append(@, Message("- No such Frame Class",
                                                   row[Lower(s.frameClassSelector)])),
                             !.valid = FALSE]
         ELSE [c EXCEPT !.pic.frameClass = row[Lower(s.frameClassSelector)].s]

\* Lines 309-318
FrameTextureScale(c, row, s) ==
    NumberField(c, Resolve(s, row, s.frameTextureScaleSelector, s.pictureParameters.frameTextureScale),
                "frameTextureScale", "frame_message", "- Invalid Frame Texture Scale")

\* Lines 320-329
FrameTextureRotation(c, row, s) ==
    NumberField(c, Resolve(s, row, s.frameTextureRotationSelector, s.pictureParameters.frameTextureRotation),
                "frameTextureRotation", "frame_message", "- Invalid Frame Texture Rotation")

\* Lines 281-329: what follows the frame thickness, unless that raised
FrameRest(c, row, s) ==
    IF c.raised THEN c
    ELSE FrameTextureRotation(
             FrameTextureScale(FrameClass(FrameDepth(c, row, s), row, s), row, s), row, s)

\* Mutant of FrameDetails: the frame fields are derived whatever withFrame says
FrameDetails_Always(c, row, s) ==
    FrameRest(FrameThickness(FrameHeight(FrameWidth(c, row, s), row, s), row, s), row, s)

\* Lines 253-329
FrameDetails(c, row, s) ==
    IF c.pic.withFrame = "True"
    THEN FrameRest(FrameThickness(FrameHeight(FrameWidth(c, row, s), row, s), row, s), row, s)
    ELSE c

\* Lines 244-329
FrameSection(c, row, s) == FrameDetails(FrameFlag(c, row, s), row, s)

\* Lines 332-339
MatboardFlag(c, row, s) ==
    IF s.withMatboardSelector = Manual
    THEN [c EXCEPT !.pic.withMatboard = s.pictureParameters.withMatboard]
    ELSE [c EXCEPT !.pic.withMatboard = Flag(PresentIfTruthy(row[Lower(s.withMatboardSelector)]))]

\* Lines 342-348
MatboardFrameWidth(c, row, s) ==
    NumberField(c, row[Lower(s.frameWidthSelector)],
                "frameWidth", "frame_message", "- Invalid Frame Width (needed for Matboard)")

\* Lines 350-356
MatboardFrameHeight(c, row, s) ==
    NumberField(c, row[Lower(s.frameHeightSelector)],
                "frameHeight", "frame_message", "- Invalid Frame Height (needed for Matboard)")

\* Mutant of WindowField: the substitution also clears valid_picture
WindowField_FallbackInvalid(c, cell_value, field, image_field, missing_text, invalid_text) ==
    IF Accepted(cell_value)
    THEN [c EXCEPT !.pic[field] = RoundStr(Validate(cell_value).value)]
    ELSE IF c.pic.withImage = "True"
         THEN [c EXCEPT !.pic[field] = c.pic[image_field],
                        !.matboard_message = Append(@, Message(missing_text, None)),
                        !.valid = FALSE]
         ELSE [c EXCEPT !.matboard_message = Append(@, Message(invalid_text, cell_value)),
                        !.valid = FALSE]

\* Lines 358-368 and 370-380: the window width (height), or the image's
WindowField(c, cell_value, field, image_field, missing_text, invalid_text) ==
    IF Accepted(cell_value)
    THEN [c EXCEPT !.pic[field] = RoundStr(Validate(cell_value).value)]
    ELSE IF c.pic.withImage = "True"
         THEN [c EXCEPT !.pic[field] = c.pic[image_field],
                        !.matboard_message = Append(@, Message(missing_text, None))]
         ELSE [c EXCEPT !.matboard_message = Append(@, Message(invalid_text, cell_value)),
                        !.valid = FALSE]

\* Lines 358-368
WindowWidth(c, row, s) ==
    WindowField(c, row[Lower(s.windowWidthSelector)], "windowWidth", "imageWidth",
                "- Missing window width, using image width instead",
                "- Invalid Window Width")

\* Lines 370-380
WindowHeight(c, row, s) ==
    WindowField(c, row[Lower(s.windowHeightSelector)], "windowHeight", "imageHeight",
                "- Missing window height, using image height instead",
                "- Invalid Window Height")

\* Lines 382-391
MatboardPosition(c, row, s) ==
    NumberField(c, Resolve(s, row, s.matboardPositionSelector, s.pictureParameters.matboardPosition),
                "matboardPosition", "matboard_message", "- Invalid Matboard Position")

\* Lines 393-408
MatboardClass(c, row, s) ==
    IF s.matboardClassSelector = Manual
    THEN [c EXCEPT !.pic.matboardClass = s.pictureParameters.matboardClass]
    ELSE IF GetObject(c, row[Lower(s.matboardClassSelector)].s) = 0
         THEN IF s.createMissingClasses
              THEN [CreateClass(c, row[Lower(s.matboardClassSelector)].s)
                       EXCEPT !.pic.matboardClass = row[Lower(s.matboardClassSelector)].s]
              ELSE [c EXCEPT !.matboard_message =
                                 Append(@, Message("- No such Matboard Class",
                                                   row[Lower(s.matboardClassSelector)])),
                             !.valid = FALSE]
         ELSE [c EXCEPT !.pic.matboardClass = row[Lower(s.matboardClassSelector)].s]

\* Lines 410-419
MatboardTextureScale(c, row, s) ==
    NumberField(c, Resolve(s, row, s.matboardTextureScaleSelector, s.pictureParameters.matboardTextureScale),
                "matboardTextureScale", "matboard_message", "- Invalid Matboard Texture Scale")

\* Lines 421-430
MatboardTextureRotat(c, row, s) ==
    NumberField(c, Resolve(s, row, s.matboardTextureRotatSelector, s.pictureParameters.matboardTextureRotat),
                "matboardTextureRotat", "matboard_message", "- Invalid Matboard Texture Rotation")

\* Lines 358-380
MatboardWindow(c, row, s) == WindowHeight(WindowWidth(c, row, s), row, s)

\* Lines 382-430
MatboardRest(c, row, s) ==
    MatboardTextureRotat(
        MatboardTextureScale(MatboardClass(MatboardPosition(c, row, s), row, s), row, s),
        row, s)

\* Lines 341-430
MatboardDetails(c, row, s) ==
    IF c.pic.withMatboard = "True"
    THEN MatboardRest(
             MatboardWindow(MatboardFrameHeight(MatboardFrameWidth(c, row, s), row, s), row, s),
             row, s)
    ELSE c

\* Lines 332-430
MatboardSection(c, row, s) == MatboardDetails(MatboardFlag(c, row, s), row, s)

\* Lines 433-440
GlassFlag(c, row, s) ==
    IF s.withGlassSelector = Manual
    THEN [c EXCEPT !.pic.withGlass = s.pictureParameters.withGlass]
    ELSE [c EXCEPT !.pic.withGlass = Flag(PresentIfTruthy(row[Lower(s.withGlassSelector)]))]

\* Lines 443-452
GlassPosition(c, row, s) ==
    NumberField(c, Resolve(s, row, s.glassPositionSelector, s.pictureParameters.glassPosition),
                "glassPosition", "glass_message", "- Invalid Glass Position")

\* Lines 454-469: the lookup is on picture.glassClass, the class the record
\* holds from before, not on cell_value
GlassClass(c, row, s) ==
    IF s.glassClassSelector = Manual
    THEN [c EXCEPT !.pic.glassClass = s.pictureParameters.glassClass]
    ELSE IF GetObject(c, c.pic.glassClass) = 0
         THEN IF s.createMissingClasses
              THEN [CreateClass(c, row[Lower(s.glassClassSelector)].s)
                       EXCEPT !.pic.glassClass = row[Lower(s.glassClassSelector)].s]
              ELSE [c EXCEPT !.glass_message =
                                 Append(@, Message("- No such Glass Class",
                                                   row[Lower(s.glassClassSelector)])),
                             !.valid = FALSE]
         ELSE [c EXCEPT !.pic.glassClass = row[Lower(s.glassClassSelector)].s]

\* Lines 442-469
GlassDetails(c, row, s) ==
    IF c.pic.withGlass = "True"
    THEN GlassClass(GlassPosition(c, row, s), row, s)
    ELSE c

\* Lines 433-469
GlassSection(c, row, s) == GlassDetails(GlassFlag(c, row, s), row, s)

(***************************************************************************)
(* Symbol, class and metadata sections                                     *)
(***************************************************************************)
\* string.whitespace (the vertical tab has no TLA+ spelling)
Whitespace == {" ", "\t", "\n", "\r", "\f"}

\* folder_name.translate({ord(c): '_' for c in string.whitespace})
Translate(text) ==
    [k \in 1..Len(text) |-> IF text[k] \in Whitespace THEN "_" ELSE text[k]]

\* text.replace("__", "_"): one pass, left to right, over what is left
RECURSIVE ReplaceDouble(_)
ReplaceDouble(text) ==
    IF Len(text) < 2 THEN text
    ELSE IF text[1] = "_" /\ text[2] = "_"
         THEN <<"_">> \o ReplaceDouble(SubSeq(text, 3, Len(text)))
         ELSE <<text[1]>> \o ReplaceDouble(Tail(text))

FolderSuffix == <<" ", "F", "o", "l", "d", "e", "r">>

\* Lines 472-483.  An empty sequence stands for a folder cell that is None or ""
SymbolSection(c, row, s) ==
    IF s.symbolCreateSymbol = "True"
    THEN IF s.symbolFolderSelector = Manual
         THEN [c EXCEPT !.pic.createSymbol = "True", !.pic.symbolFolder = s.symbolFolder]
         ELSE LET folder_name == row[Lower(s.symbolFolderSelector)]
              IN IF folder_name # <<>>
                 THEN [c EXCEPT !.pic.createSymbol = "True",
                                !.pic.symbolFolder =
                                    ReplaceDouble(Translate(folder_name)) \o FolderSuffix]
                 ELSE [c EXCEPT !.pic.createSymbol = "True"]
    ELSE [c EXCEPT !.pic.createSymbol = "False", !.pic.symbolFolder = <<>>]

\* Lines 486-490
ClassSection(c, row, s) ==
    IF s.classAssignPictureClass = "True"
    THEN [c EXCEPT !.pic.pictureClass =
              Resolve(s, row, s.classClassPictureSelector, s.pictureParameters.pictureClass)]
    ELSE c

\* "Height: {}, Width: {}".format(height, width)
SizeText(height, width) == StrCell("Height: " \o height \o ", Width: " \o width)

\* One metadata field copied from its column
MetaField(c, row, selector, field) ==
    IF selector # DontImport
    THEN [c EXCEPT !.record[field] = row[Lower(selector)]]
    ELSE c

\* One date field, through make_year_string
MetaYear(c, row, selector, field) ==
    IF selector # DontImport
    THEN [c EXCEPT !.record[field] = StrCell(make_year_string(row[Lower(selector)]))]
    ELSE c

\* Lines 494-495
MetaImageSize(c) ==
    IF c.pic.withImage = "True"
    THEN [c EXCEPT !.record.imageSize = SizeText(c.pic.imageHeight, c.pic.imageWidth)]
    ELSE c

\* Lines 496-497
MetaFrameSize(c) ==
    IF c.pic.withFrame = "True" \/ c.pic.withMatboard = "True"
    THEN [c EXCEPT !.record.frameSize = SizeText(c.pic.frameHeight, c.pic.frameWidth)]
    ELSE c

\* Lines 498-499
MetaWindowSize(c) ==
    IF c.pic.withMatboard = "True"
    THEN [c EXCEPT !.record.windowSize = SizeText(c.pic.windowHeight, c.pic.windowWidth)]
    ELSE c

\* Lines 500-507
MetaArtwork(c, row, s) ==
    MetaField(
        MetaYear(
            MetaField(
                MetaField(c, row, s.metaArtworkTitleSelector, "artworkTitle"),
                row, s.metaAuthorNameSelector, "authorName"),
            row, s.metaArtworkCreationDateSelector, "artworkCreationDate"),
        row, s.metaArtworkMediaSelector, "artworkMedia")

\* Lines 510-517
MetaSource(c, row, s) ==
    MetaField(
        MetaField(
            MetaField(
                MetaField(c, row, s.metaRoomLocationSelector, "roomLocation"),
                row, s.metaArtworkSourceSelector, "artworkSource"),
            row, s.metaRegistrationNumberSelector, "registrationNumber"),
        row, s.metaAuthorBirthCountrySelector, "authorBirthCountry")

\* Lines 518-525
MetaAuthor(c, row, s) ==
    MetaField(
        MetaField(
            MetaYear(
                MetaYear(c, row, s.metaAuthorBirthDateSelector, "authorBirthDate"),
                row, s.metaAuthorDeathDateSelector, "authorDeathDate"),
            row, s.metaDesignNotesSelector, "designNotes"),
        row, s.metaExhibitionMediaSelector, "exhibitionMedia")

\* Mutant of MetadataSection: the fields are written whatever metaImportMetadata says
MetadataSection_Always(c, row, s) ==
    MetaAuthor(
        MetaSource(
            MetaArtwork(MetaWindowSize(MetaFrameSize(MetaImageSize(c))), row, s),
            row, s),
        row, s)

\* Lines 493-525: the fields are written into settings.pictureRecord
MetadataSection(c, row, s) ==
    IF s.metaImportMetadata = "True"
    THEN MetaAuthor(
             MetaSource(
                 MetaArtwork(MetaWindowSize(MetaFrameSize(MetaImageSize(c))), row, s),
                 row, s),
             row, s)
    ELSE c

(***************************************************************************)
(* The loop body                                                           *)
(***************************************************************************)
\* picture_name = to_string(name), lines 192-193
PictureName(row, s) == to_string(row[Lower(s.imageTextureSelector)])

\* The context at line 186
NewContext(pic, s, registry) ==
    [pic |-> pic, valid |-> TRUE,
     image_message |-> <<>>, frame_message |-> <<>>,
     matboard_message |-> <<>>, glass_message |-> <<>>,
     classes |-> registry.classes, active |-> registry.active, calls |-> registry.calls,
     record |-> s.pictureRecord, raised |-> FALSE]

\* Lines 472-525, reached unless a statement before them raised
AfterGlass(c, row, s) ==
    IF c.raised THEN c
    ELSE MetadataSection(ClassSection(SymbolSection(c, row, s), row, s), row, s)

\* Lines 331-525
AfterFrame(c, row, s) ==
    IF c.raised THEN c
    ELSE AfterGlass(GlassSection(MatboardSection(c, row, s), row, s), row, s)

\* Lines 200-525, the else branch of a row with a name, up to the statement
\* that raises if one does
Derive(pic, row, s, registry) ==
    AfterFrame(
        FrameSection(
            ImageSection(
                NewContext([pic EXCEPT !.pictureName = PictureName(row, s).s], s, registry),
                row, s),
            row, s),
        row, s)

\* The line written for a row without a name, line 195
NameNotFound == [name |-> "UNKNOWN", messages |-> <<Message("[Error] - Picture name not found", None)>>]

\* The line written for an invalid row, lines 528-529
ErrorLine(picture_name, c) ==
    [name |-> picture_name,
     messages |-> <<Message(" * [Error]", None)>> \o c.image_message \o c.frame_message
                      \o c.matboard_message \o c.glass_message]

\* Mutant of Nameless: only None counts as a missing name
Nameless_OnlyNone(picture_name) == picture_name.t = "none"

\* `if not picture_name`, line 194
Nameless(picture_name) == ~Truthy(picture_name)

\* Mutant of Written: a line is written whenever a section left a message
Written_AnyMessage(picture_name, c) ==
    IF c.image_message \o c.frame_message \o c.matboard_message \o c.glass_message # <<>>
    THEN <<ErrorLine(picture_name, c)>>
    ELSE <<>>

\* Lines 527-530: what the loop body writes to log_file after the sections
Written(picture_name, c) ==
    IF ~c.valid THEN <<ErrorLine(picture_name, c)>> ELSE <<>>

\* Mutant of Finished: an invalid row keeps its name
Finished_KeepsName(c) == c.pic

\* Lines 527-531: the record as it stands at the yield of line 533
Finished(c) ==
    IF ~c.valid THEN [c.pic EXCEPT !.pictureName = ""] ELSE c.pic

(***************************************************************************)
(* The generator and its consumer                                          *)
(***************************************************************************)
\* The one record the generator works on: `picture`, bound at line 176
picture == 1

Registry == [classes |-> classes, active |-> active, calls |-> calls]

\* What a yield hands to the consumer: a reference to the record (ref); index
\* is the row it was made from and line the yield statement
Yielded(ref, line) == [index |-> i + 1, ref |-> ref, line |-> line]

\* What an iteration did, for the properties
Did(row, named, c) ==
    [idx |-> i + 1, row |-> row, named |-> named, before |-> heap[picture],
     registry |-> Registry, logged |-> Len(log), c |-> c]

Init ==
    /\ settings \in SettingsSet
    /\ connected \in BOOLEAN
    /\ pc = "start"
    /\ nrows = 0
    /\ i = 0
    /\ heap = <<>>
    /\ out = <<>>
    /\ log = <<>>
    /\ classes = InitialClasses
    /\ active = InitialActive
    /\ calls = <<>>
    /\ cursor = "none"
    /\ last = [idx |-> 0]

\* Lines 176-184, on the first next(): the record is constructed, the cursor
\* opened and the rows fetched.  The loop draws the content of a row when it
\* reaches it; rows is never changed, so this is the list fetchall() returned.
Open ==
    /\ pc = "start"
    /\ connected /\ settings.excelSheetName # ""
    /\ \E glass_class \in DefaultGlassClasses : heap' = <<NewPicture(glass_class)>>
    /\ cursor' = "open"
    /\ nrows' \in 0..MaxRows
    /\ pc' = "loop"
    /\ UNCHANGED <<settings, connected, i, out, log, classes, active, calls, last>>

\* Line 177 false: the generator ends without a row
NotConnected ==
    /\ pc = "start"
    /\ ~(connected /\ settings.excelSheetName # "")
    /\ \E glass_class \in DefaultGlassClasses : heap' = <<NewPicture(glass_class)>>
    /\ pc' = "done"
    /\ UNCHANGED <<settings, connected, nrows, i, out, log, classes, active, calls, cursor, last>>

\* Lines 194-198: the branch of a row whose name is missing
YieldAt198(row) ==
    /\ log' = Append(log, NameNotFound)
    /\ heap' = [heap EXCEPT ![picture].pictureName = ""]
    /\ out' = Append(out, Yielded(picture, 198))
    /\ last' = Did(row, FALSE,
                   NewContext([heap[picture] EXCEPT !.pictureName = ""], settings, Registry))

\* Lines 185-198: a row whose name is missing
RowWithoutName ==
    /\ pc = "loop" /\ i < nrows
    /\ \E row \in RowSet : Nameless(PictureName(row, settings)) /\ YieldAt198(row)
    /\ i' = i + 1
    /\ pc' = "yield198"
    /\ UNCHANGED <<settings, connected, nrows, classes, active, calls, cursor>>

\* The consumer asks for the next record after the yield of line 198: the
\* if statement is over, and line 533 yields the record once more
ResumeAfter198 ==
    /\ pc = "yield198"
    /\ out' = Append(out, [out[Len(out)] EXCEPT !.line = 533])
    /\ pc' = "yield533"
    /\ UNCHANGED <<settings, connected, nrows, i, heap, log, classes, active, calls, cursor, last>>

\* What the sections leave behind: the registry and settings.pictureRecord
Effects(c) ==
    /\ settings' = [settings EXCEPT !.pictureRecord = c.record]
    /\ classes' = c.classes
    /\ active' = c.active
    /\ calls' = c.calls

\* Lines 527-533 after the sections: the log line, the sentinel name, the yield
YieldAt533(row, picture_name, c) ==
    /\ ~c.raised
    /\ log' = log \o Written(picture_name, c)
    /\ heap' = [heap EXCEPT ![picture] = Finished(c)]
    /\ out' = Append(out, Yielded(picture, 533))
    /\ Effects(c)
    /\ last' = Did(row, TRUE, c)

\* Lines 185-533: a row with a name, derived, logged if invalid, and yielded
RowWithName ==
    /\ pc = "loop" /\ i < nrows
    /\ \E row \in RowSet :
          /\ ~Nameless(PictureName(row, settings))
          /\ YieldAt533(row, PictureName(row, settings).s,
                        Derive(heap[picture], row, settings, Registry))
    /\ i' = i + 1
    /\ pc' = "yield533"
    /\ UNCHANGED <<connected, nrows, cursor>>

\* The exception leaves the generator, which is then finished; what was
\* assigned before it stays
Raise(row, c) ==
    /\ c.raised
    /\ heap' = [heap EXCEPT ![picture] = c.pic]
    /\ Effects(c)
    /\ last' = Did(row, TRUE, c)

\* A row with a name whose derivation raises
RowRaises ==
    /\ pc = "loop" /\ i < nrows
    /\ \E row \in RowSet :
          /\ ~Nameless(PictureName(row, settings))
          /\ Raise(row, Derive(heap[picture], row, settings, Registry))
    /\ i' = i + 1
    /\ pc' = "raised"
    /\ UNCHANGED <<connected, nrows, out, log, cursor>>

\* The consumer asks for the next record after the yield of line 533
ResumeAfter533 ==
    /\ pc = "yield533"
    /\ pc' = "loop"
    /\ UNCHANGED <<settings, connected, nrows, i, heap, out, log, classes, active, calls, cursor, last>>

\* The for loop is over: line 534 closes the cursor and the generator returns
Exhausted ==
    /\ pc = "loop" /\ i = nrows
    /\ cursor' = "closed"
    /\ pc' = "done"
    /\ UNCHANGED <<settings, connected, nrows, i, heap, out, log, classes, active, calls, last>>

\* The consumer stops early: it closes the generator at a yield.  No finally
\* clause runs, the cursor stays as it is
Abandon ==
    /\ pc \in {"yield198", "yield533"}
    /\ pc' = "closed"
    /\ UNCHANGED <<settings, connected, nrows, i, heap, out, log, classes, active, calls, cursor, last>>

Next ==
    \/ Open
    \/ NotConnected
    \/ RowWithoutName
    \/ ResumeAfter198
    \/ RowWithName
    \/ RowRaises
    \/ ResumeAfter533
    \/ Exhausted
    \/ Abandon

Spec == Init /\ [][Next]_vars

(***************************************************************************)
(* Properties.  last is the latest loop iteration: its row (last.row), the *)
(* record and the registry before it (last.before, last.registry), the     *)
(* length of the log before it (last.logged) and the context it ended      *)
(* with (last.c).  While the generator stands at a yield, heap[picture]    *)
(* is the record the consumer holds.                                       *)
(***************************************************************************)
AtYield == pc \in {"yield198", "yield533"}

\* The latest iteration was of a row with a name and ran to line 533
Completed == last.idx > 0 /\ last.named /\ ~last.c.raised

\* The messages of a buffer of the latest iteration
Texts(buffer) == {last.c[buffer][k].text : k \in 1..Len(last.c[buffer])}

AllTexts ==
    Texts("image_message") \cup Texts("frame_message")
        \cup Texts("matboard_message") \cup Texts("glass_message")

\* The two messages that report a substitution, not an error
Informational ==
    {"- Missing window width, using image width instead",
     "- Missing window height, using image height instead"}

\* C1: the generator yields exactly one record per row, in row order:
\* whenever it stands at a yield, between rows or at its end, the number of
\* records yielded is the number of rows taken, and record k is of row k
C1_OneRecordPerRow ==
    pc \in {"yield198", "yield533", "loop", "done"} =>
        /\ Len(out) = i
        /\ \A k \in 1..Len(out) : out[k].index = k

\* The record the loop body yields for the latest row when it works on a
\* new PictureParameters, with the same settings and the same registry
FreshRecord(glass_class) ==
    IF last.named
    THEN Finished(Derive(NewPicture(glass_class), last.row, settings, last.registry))
    ELSE NewPicture(glass_class)

\* C2: the record yielded for a row depends only on the row, the settings
\* and the registry: it is the record the same row yields as the first row
C2_RecordDependsOnRowOnly ==
    (AtYield /\ last.idx > 0) =>
        \E glass_class \in DefaultGlassClasses : heap[picture] = FreshRecord(glass_class)

\* C3: no step changes a field of a record that was already yielded
C3_YieldedRecordNotChanged ==
    [][\A k \in 1..Len(out) : heap'[out[k].ref] = heap[out[k].ref]]_vars

\* The name cell of the latest row does not resolve to non-empty text
NoName ==
    last.idx > 0 /\
        (to_string(last.row[Lower(settings.imageTextureSelector)]).t # "str"
            \/ to_string(last.row[Lower(settings.imageTextureSelector)]).s = "")

\* C4: a row without a name is yielded with pictureName "", writes exactly
\* one "Picture name not found" line, and does not end the iteration
C4_MissingNameYieldsSentinel ==
    NoName =>
        /\ pc # "raised"
        /\ out # <<>> /\ out[Len(out)].index = last.idx
        /\ AtYield => heap[picture].pictureName = ""
        /\ Len(log) = last.logged + 1
        /\ log[Len(log)] = NameNotFound
        /\ pc = "done" => i = nrows

\* A nameless row was yielded and the loop went on to a second nameless row
C4_Witness ==
    /\ NoName /\ last.idx = 2 /\ pc = "yield198"
    /\ out[1].line = 198 /\ Len(log) = 2

\* The class a column names in the latest row
CellClass(selector) == last.row[Lower(selector)].s

\* The latest iteration left this message, about this class, in the buffer
NoSuch(buffer, text, selector) ==
    \E k \in 1..Len(last.c[buffer]) :
        last.c[buffer][k] = Message(text, StrCell(CellClass(selector)))

\* A class field of the latest row is read from a column that names a class
\* the registry did not have before the row, in a section that is present
MissingClass(flag, selector) ==
    /\ last.c.pic[flag] = "True"
    /\ selector # Manual
    /\ CellClass(selector) \notin last.registry.classes

\* The latest row was rejected for a class field only if the column names a
\* class the registry lacks and createMissingClasses is off
RejectedOnlyIfMissing(buffer, text, selector) ==
    text \in Texts(buffer) =>
        /\ selector # Manual
        /\ CellClass(selector) \notin last.registry.classes
        /\ ~settings.createMissingClasses

\* C5: a "No such ... Class" message is given only for a class that is
\* missing while createMissingClasses is off; a row that names an existing
\* class is never rejected for that field
C5_ClassRejectedOnlyIfMissing ==
    last.idx > 0 =>
        /\ RejectedOnlyIfMissing("frame_message", "- No such Frame Class",
                                 settings.frameClassSelector)
        /\ RejectedOnlyIfMissing("matboard_message", "- No such Matboard Class",
                                 settings.matboardClassSelector)
        /\ RejectedOnlyIfMissing("glass_message", "- No such Glass Class",
                                 settings.glassClassSelector)

\* A missing class with createMissingClasses off: the message, the row
\* invalid, the registry as it was
RejectedIfMissing(flag, buffer, text, selector) ==
    (MissingClass(flag, selector) /\ ~settings.createMissingClasses) =>
        /\ NoSuch(buffer, text, selector)
        /\ ~last.c.valid
        /\ last.c.classes = last.registry.classes
        /\ last.c.calls = last.registry.calls

\* C6: a class that is missing while createMissingClasses is off gives the
\* "No such ... Class (name)" message, marks the row invalid and creates nothing
C6_MissingClassRejected ==
    Completed =>
        /\ RejectedIfMissing("withFrame", "frame_message", "- No such Frame Class",
                             settings.frameClassSelector)
        /\ RejectedIfMissing("withMatboard", "matboard_message", "- No such Matboard Class",
                             settings.matboardClassSelector)
        /\ RejectedIfMissing("withGlass", "glass_message", "- No such Glass Class",
                             settings.glassClassSelector)

\* The vs.NameClass calls of the latest iteration
NewCalls == SubSeq(last.c.calls, Len(last.registry.calls) + 1, Len(last.c.calls))

Count(seq, x) == Cardinality({k \in 1..Len(seq) : seq[k] = x})

\* A missing class with createMissingClasses on: created by one call, named
\* in the record, the active class as before
CreatedIfMissing(flag, field, selector) ==
    (MissingClass(flag, selector) /\ settings.createMissingClasses) =>
        /\ Count(NewCalls, CellClass(selector)) = 1
        /\ CellClass(selector) \in last.c.classes
        /\ last.c.pic[field] = CellClass(selector)
        /\ last.c.active = last.registry.active

\* C7: a class that is missing while createMissingClasses is on is created
\* exactly once, the record names it, and the active class after the
\* creation is the one before it, so that at every yield the active class
\* is the one from before the iteration
C7_MissingClassCreatedOnce ==
    /\ AtYield => active = InitialActive
    /\ Completed =>
        /\ CreatedIfMissing("withFrame", "frameClass", settings.frameClassSelector)
        /\ CreatedIfMissing("withMatboard", "matboardClass", settings.matboardClassSelector)
        /\ CreatedIfMissing("withGlass", "glassClass", settings.glassClassSelector)

\* The fallback of one window field in the latest row: with the image
\* present and its size valid, a window cell that fails validation gives the
\* rendered image size and no error; with the image absent it is an error
WindowFallback(window_selector, image_selector, field, missing_text, invalid_text) ==
    (last.c.pic.withMatboard = "True" /\ ~Accepted(last.row[Lower(window_selector)])) =>
        /\ (last.c.pic.withImage = "True" /\ Accepted(last.row[Lower(image_selector)])) =>
              /\ last.c.pic[field] =
                     RoundStr(Validate(last.row[Lower(image_selector)]).value)
              /\ missing_text \in Texts("matboard_message")
              /\ invalid_text \notin AllTexts
              /\ last.c.valid <=> AllTexts \subseteq Informational
        /\ last.c.pic.withImage # "True" =>
              /\ invalid_text \in Texts("matboard_message")
              /\ ~last.c.valid

\* C8: the matboard window falls back to the image size of the same row
\* without marking the row invalid when the image is present, and is a
\* validation error when it is not
C8_WindowFallsBackToImage ==
    Completed =>
        /\ WindowFallback(settings.windowWidthSelector, settings.imageWidthSelector,
                          "windowWidth",
                          "- Missing window width, using image width instead",
                          "- Invalid Window Width")
        /\ WindowFallback(settings.windowHeightSelector, settings.imageHeightSelector,
                          "windowHeight",
                          "- Missing window height, using image height instead",
                          "- Invalid Window Height")

\* A valid row whose window width fell back to the image width, after a row
\* that was logged for its window width
C8_Witness ==
    /\ Completed /\ last.c.valid
    /\ last.c.pic.withMatboard = "True" /\ last.c.pic.withImage = "True"
    /\ ~Accepted(last.row[Lower(settings.windowWidthSelector)])
    /\ last.c.pic.windowWidth = "12.5"
    /\ \E k \in 1..Len(log) : \E m \in 1..Len(log[k].messages) :
           log[k].messages[m].text = "- Invalid Window Width"

\* The resolved presence value of a section in the latest row
Presence(selector, manual_value) ==
    IF selector = Manual THEN StrCell(manual_value) ELSE last.row[Lower(selector)]

\* null, the empty string, "False" or "No"
Falsy(value) == value.t = "none" \/ (value.t = "str" /\ value.s \in {"", "False", "No"})

\* C9: each of the four sections is present unless its resolved presence
\* value is null, "", "False" or "No"
C9_PresenceFalsySet ==
    Completed =>
        /\ last.c.pic.withImage = "True" <=>
               ~Falsy(Presence(settings.withImageSelector, settings.pictureParameters.withImage))
        /\ last.c.pic.withFrame = "True" <=>
               ~Falsy(Presence(settings.withFrameSelector, settings.pictureParameters.withFrame))
        /\ last.c.pic.withMatboard = "True" <=>
               ~Falsy(Presence(settings.withMatboardSelector,
                               settings.pictureParameters.withMatboard))
        /\ last.c.pic.withGlass = "True" <=>
               ~Falsy(Presence(settings.withGlassSelector, settings.pictureParameters.withGlass))

\* The latest row is invalid: its name is missing, or a field failed
\* validation, or a class was missing
RowInvalid == ~last.named \/ ~(AllTexts \subseteq Informational)

AsConfigured(manual_value) == to_string(manual_value).s

\* A numeric field of a present section is manual in the latest row
ManualField(flag, selector) == last.c.pic[flag] = "True" /\ selector = Manual

\* The manual value of a field went into the record as it is, unvalidated
Bypassed(flag, selector, manual_value, field, text) ==
    ManualField(flag, selector) =>
        /\ last.c.pic[field] = AsConfigured(manual_value)
        /\ text \notin AllTexts

\* C11 as stated: a numeric field whose selector is Manual takes the manual
\* value unchanged and is not validated: no "Invalid ..." message for it,
\* whatever the manual value is
C11_ManualBypassesValidation ==
    Completed =>
        /\ Bypassed("withImage", settings.imagePositionSelector,
                    settings.pictureParameters.imagePosition,
                    "imagePosition", "- Invalid Image Position")
        /\ Bypassed("withFrame", settings.frameThicknessSelector,
                    settings.pictureParameters.frameThickness,
                    "frameThickness", "- Invalid Frame Thickness")
        /\ Bypassed("withMatboard", settings.matboardPositionSelector,
                    settings.pictureParameters.matboardPosition,
                    "matboardPosition", "- Invalid Matboard Position")
        /\ Bypassed("withGlass", settings.glassPositionSelector,
                    settings.pictureParameters.glassPosition,
                    "glassPosition", "- Invalid Glass Position")

\* The manual value of a field was validated and rendered like a column value
ValidatedLikeColumn(flag, selector, manual_value, field, buffer, text) ==
    ManualField(flag, selector) =>
        IF Accepted(manual_value)
        THEN /\ last.c.pic[field] = RoundStr(Validate(manual_value).value)
             /\ text \notin AllTexts
        ELSE /\ Message(text, manual_value) \in
                    {last.c[buffer][k] : k \in 1..Len(last.c[buffer])}
             /\ ~last.c.valid

\* C11 as amended: a numeric field whose selector is Manual is validated and
\* rendered exactly like a column value: a manual value that is a number or
\* numeric text is stored rounded to 3 places with no message, any other
\* manual value appends the field's "Invalid ..." message and marks the row
\* invalid
C11_ManualValidatedLikeColumn ==
    Completed =>
        /\ ValidatedLikeColumn("withImage", settings.imagePositionSelector,
                               settings.pictureParameters.imagePosition,
                               "imagePosition", "image_message", "- Invalid Image Position")
        /\ ValidatedLikeColumn("withFrame", settings.frameThicknessSelector,
                               settings.pictureParameters.frameThickness,
                               "frameThickness", "frame_message", "- Invalid Frame Thickness")
        /\ ValidatedLikeColumn("withFrame", settings.frameDepthSelector,
                               settings.pictureParameters.frameDepth,
                               "frameDepth", "frame_message", "- Invalid Frame Depth")
        /\ ValidatedLikeColumn("withFrame", settings.frameTextureScaleSelector,
                               settings.pictureParameters.frameTextureScale,
                               "frameTextureScale", "frame_message",
                               "- Invalid Frame Texture Scale")
        /\ ValidatedLikeColumn("withFrame", settings.frameTextureRotationSelector,
                               settings.pictureParameters.frameTextureRotation,
                               "frameTextureRotation", "frame_message",
                               "- Invalid Frame Texture Rotation")
        /\ ValidatedLikeColumn("withMatboard", settings.matboardPositionSelector,
                               settings.pictureParameters.matboardPosition,
                               "matboardPosition", "matboard_message",
                               "- Invalid Matboard Position")
        /\ ValidatedLikeColumn("withMatboard", settings.matboardTextureScaleSelector,
                               settings.pictureParameters.matboardTextureScale,
                               "matboardTextureScale", "matboard_message",
                               "- Invalid Matboard Texture Scale")
        /\ ValidatedLikeColumn("withMatboard", settings.matboardTextureRotatSelector,
                               settings.pictureParameters.matboardTextureRotat,
                               "matboardTextureRotat", "matboard_message",
                               "- Invalid Matboard Texture Rotation")
        /\ ValidatedLikeColumn("withGlass", settings.glassPositionSelector,
                               settings.pictureParameters.glassPosition,
                               "glassPosition", "glass_message", "- Invalid Glass Position")

\* A row was logged as invalid for nothing but its manual image position,
\* which is no number
C11_Witness ==
    /\ Completed /\ ~last.c.valid
    /\ settings.imagePositionSelector = Manual
    /\ ~Accepted(settings.pictureParameters.imagePosition)
    /\ AllTexts = {"- Invalid Image Position"}
    /\ Len(log) = last.logged + 1

\* The detail fields of the four sections
ImageFields == {"imageWidth", "imageHeight", "imagePosition"}

FrameSizeFields == {"frameWidth", "frameHeight"}

FrameOwnFields ==
    {"frameThickness", "frameDepth", "frameClass", "frameTextureScale", "frameTextureRotation"}

MatboardFields ==
    {"windowWidth", "windowHeight", "matboardPosition", "matboardClass",
     "matboardTextureScale", "matboardTextureRotat"}

GlassFields == {"glassPosition", "glassClass"}

\* The latest iteration left these fields of the record as they were
Untouched(fields) == \A f \in fields : last.c.pic[f] = last.before[f]

\* A section that is off in the latest row: its fields as they were and
\* nothing in its message buffer
SectionSkipped(flag, fields, buffer) ==
    last.c.pic[flag] # "True" => (Untouched(fields) /\ last.c[buffer] = <<>>)

\* C12 as stated: a section whose with* flag is not "True" for the row has
\* none of its detail fields written and none of its values validated or
\* looked up (nothing reaches its message buffer)
C12_DetailsOnlyWhenFlagTrue ==
    Completed =>
        /\ SectionSkipped("withImage", ImageFields, "image_message")
        /\ SectionSkipped("withFrame", FrameSizeFields \cup FrameOwnFields, "frame_message")
        /\ SectionSkipped("withMatboard", MatboardFields, "matboard_message")
        /\ SectionSkipped("withGlass", GlassFields, "glass_message")

\* The messages the matboard section puts into the frame's buffer
NeededForMatboard ==
    {"- Invalid Frame Width (needed for Matboard)",
     "- Invalid Frame Height (needed for Matboard)"}

\* C12 as amended: as stated for the image, matboard and glass sections and
\* for the frame's thickness, depth, class and texture fields; frameWidth and
\* frameHeight are also validated and written by the matboard section, so
\* with withFrame off they are unchanged only if withMatboard is off too, and
\* with withMatboard on the frame's buffer holds at most the two
\* "(needed for Matboard)" messages
C12_DetailsOnlyWhenSectionNeedsThem ==
    Completed =>
        /\ SectionSkipped("withImage", ImageFields, "image_message")
        /\ last.c.pic.withFrame # "True" =>
              /\ Untouched(FrameOwnFields)
              /\ Texts("frame_message") \subseteq NeededForMatboard
              /\ last.c.pic.withMatboard # "True" =>
                    (Untouched(FrameSizeFields) /\ last.c.frame_message = <<>>)
        /\ SectionSkipped("withMatboard", MatboardFields, "matboard_message")
        /\ SectionSkipped("withGlass", GlassFields, "glass_message")

\* A row without a frame but with a matboard, after a row with a frame: the
\* frame width is rewritten, the frame's other fields stay
C12_Witness ==
    /\ Completed /\ last.idx = 2
    /\ last.c.pic.withFrame = "False" /\ last.c.pic.withMatboard = "True"
    /\ last.before.frameDepth # ""
    /\ last.c.pic.frameDepth = last.before.frameDepth
    /\ last.c.pic.frameWidth # last.before.frameWidth

\* The iteration is over: the generator returned, was closed by its
\* consumer at a yield, or raised
Terminated == pc \in {"done", "closed", "raised"}

\* C13: the cursor the generator opened is closed on every way the
\* iteration ends: no terminated iteration leaves its cursor open
C13_CursorClosedOnEveryEnd == Terminated => cursor # "open"

\* C14 as stated: the generator only reads the settings: no step changes a
\* field reachable from self.settings, whatever metaImportMetadata is
C14_SettingsReadOnly == [][settings' = settings]_vars

\* C14 as amended: the generator changes nothing reachable from
\* self.settings except the fields of settings.pictureRecord, which the
\* metadata section of a row with a name writes when metaImportMetadata is
\* "True"; with metaImportMetadata not "True" the settings stay as they are
C14_OnlyPictureRecordWritten ==
    [][/\ [settings' EXCEPT !.pictureRecord = settings.pictureRecord] = settings
       /\ settings.metaImportMetadata # "True" => settings' = settings
       /\ settings' # settings => (pc = "loop" /\ pc' = "yield533" /\ last'.named)]_vars

\* The metadata of the second row (its title, and the size of its image,
\* 7.25 wide) stands in settings.pictureRecord
C14_Witness ==
    /\ Completed /\ last.idx = 2
    /\ settings.metaImportMetadata = "True"
    /\ settings.pictureRecord.artworkTitle = StrCell("T")
    /\ settings.pictureRecord.imageSize = StrCell("Height: 7, Width: 7.25")
    /\ settings.pictureRecord # NewRecord

\* A validated number in thousandths, rounded to 3 decimal places
Thousandths(v) == IF v.t = "int" THEN v.n * 1000 ELSE (v.n + 5) \div 10

\* The decimal text of m thousandths with no trailing zeros, and no point
\* when nothing follows it: 7000 is "7", 7250 "7.25", 7123 "7.123"
Shortest(m) ==
    IF m % 1000 = 0 THEN ToString(m \div 1000)
    ELSE ToString(m \div 1000) \o "." \o FracDigits(m % 1000)

\* The text of a validated number: as C15 states it (stated), or with the
\* ".0" Python's str gives a float that has no fraction
NumberText(v, stated) ==
    IF ~stated /\ v.t = "float" /\ Thousandths(v) % 1000 = 0
    THEN ToString(Thousandths(v) \div 1000) \o ".0"
    ELSE Shortest(Thousandths(v))

\* A numeric field read from a column, in a section that is present, whose
\* cell passed validation, holds the text of the validated number
RenderedAs(present, selector, field, stated) ==
    (present /\ selector # Manual /\ Accepted(last.row[Lower(selector)])) =>
        last.c.pic[field] = NumberText(Validate(last.row[Lower(selector)]).value, stated)

\* The numeric fields of the latest row that are read from columns
ColumnNumbersRendered(stated) ==
    /\ RenderedAs(last.c.pic.withImage = "True", settings.imageWidthSelector,
                  "imageWidth", stated)
    /\ RenderedAs(last.c.pic.withImage = "True", settings.imageHeightSelector,
                  "imageHeight", stated)
    /\ RenderedAs(last.c.pic.withImage = "True", settings.imagePositionSelector,
                  "imagePosition", stated)
    /\ RenderedAs(last.c.pic.withFrame = "True" \/ last.c.pic.withMatboard = "True",
                  settings.frameWidthSelector, "frameWidth", stated)
    /\ RenderedAs(last.c.pic.withFrame = "True" \/ last.c.pic.withMatboard = "True",
                  settings.frameHeightSelector, "frameHeight", stated)
    /\ RenderedAs(last.c.pic.withFrame = "True", settings.frameDepthSelector,
                  "frameDepth", stated)
    /\ RenderedAs(last.c.pic.withFrame = "True", settings.frameTextureScaleSelector,
                  "frameTextureScale", stated)
    /\ RenderedAs(last.c.pic.withFrame = "True", settings.frameTextureRotationSelector,
                  "frameTextureRotation", stated)
    /\ RenderedAs(last.c.pic.withMatboard = "True", settings.windowWidthSelector,
                  "windowWidth", stated)
    /\ RenderedAs(last.c.pic.withMatboard = "True", settings.windowHeightSelector,
                  "windowHeight", stated)
    /\ RenderedAs(last.c.pic.withMatboard = "True", settings.matboardPositionSelector,
                  "matboardPosition", stated)
    /\ RenderedAs(last.c.pic.withMatboard = "True", settings.matboardTextureScaleSelector,
                  "matboardTextureScale", stated)
    /\ RenderedAs(last.c.pic.withMatboard = "True", settings.matboardTextureRotatSelector,
                  "matboardTextureRotat", stated)
    /\ RenderedAs(last.c.pic.withGlass = "True", settings.glassPositionSelector,
                  "glassPosition", stated)

\* C15 as stated: every validated numeric field is the number rounded to 3
\* decimal places, without a fractional part when it is integer-valued (7.0
\* gives "7", 7.25 "7.25", 7.1234 "7.123"), for a number and for numeric text
C15_IntegerValuedWithoutFraction == Completed => ColumnNumbersRendered(TRUE)

\* C15 as amended: every validated numeric field is the number rounded to 3
\* decimal places as Python's str prints it: an int cell without a point (7
\* gives "7"), a float always with one (7.0 gives "7.0", 7.25 "7.25", 7.1234
\* "7.123"), and numeric text as the float it parses to ("10" gives "10.0")
C15_RenderedAsPythonPrints == Completed => ColumnNumbersRendered(FALSE)

\* A row whose frame width is the float 7.0, image height the int 7, window
\* width the text "10" and window height 7.1234
C15_Witness ==
    /\ Completed /\ last.c.valid
    /\ last.row[Lower(settings.frameWidthSelector)] = FloatCell(70000)
    /\ last.c.pic.frameWidth = "7.0"
    /\ last.c.pic.imageHeight = "7"
    /\ last.c.pic.windowWidth = "10.0"
    /\ last.c.pic.windowHeight = "7.123"

\* A text with every maximal run of whitespace replaced by one underscore
RECURSIVE CollapseRuns(_)
CollapseRuns(text) ==
    IF text = <<>> THEN <<>>
    ELSE IF text[1] \in Whitespace
         THEN IF Len(text) > 1 /\ text[2] \in Whitespace
              THEN CollapseRuns(Tail(text))
              ELSE <<"_">> \o CollapseRuns(Tail(text))
         ELSE <<text[1]>> \o CollapseRuns(Tail(text))

\* The symbol folder of the latest row comes from a non-empty column value
FolderFromColumn ==
    /\ Completed
    /\ settings.symbolCreateSymbol = "True"
    /\ settings.symbolFolderSelector # Manual
    /\ last.row[Lower(settings.symbolFolderSelector)] # <<>>

\* C16: a symbol folder that comes from a non-empty column value is that
\* text with every maximal run of whitespace, of any length, replaced by
\* exactly one underscore, followed by " Folder"
C16_WhitespaceRunsCollapsed ==
    FolderFromColumn =>
        last.c.pic.symbolFolder =
            CollapseRuns(last.row[Lower(settings.symbolFolderSelector)]) \o FolderSuffix

\* The text the name cell of the latest row resolves to
RealName == to_string(last.row[Lower(settings.imageTextureSelector)]).s

\* The latest row wrote a line to the log
LineWritten == Len(log) > last.logged

\* C17: the record yielded for a row has a non-empty pictureName, the
\* row's name, if and only if the name resolved to non-empty text and no
\* validation or class lookup left an error; a row that wrote a line to the
\* log is yielded with pictureName "", and the line of a row with a name
\* starts with that name
C17_NameNonEmptyIffValid ==
    (AtYield /\ last.idx > 0) =>
        /\ heap[picture].pictureName # "" <=> (~NoName /\ AllTexts \subseteq Informational)
        /\ heap[picture].pictureName \in {"", RealName}
        /\ LineWritten =>
              /\ heap[picture].pictureName = ""
              /\ Len(log) = last.logged + 1
              /\ ~NoName => log[Len(log)].name = RealName

\* A row named "A" failed validation after a valid row: it is yielded with
\* pictureName "" and its line, the only one in the log, starts with "A"
C17_Witness ==
    /\ pc = "yield533" /\ last.idx = 2 /\ ~last.c.valid
    /\ heap[picture].pictureName = ""
    /\ last.before.pictureName # ""
    /\ Len(log) = 1 /\ log[1].name = "A"

====
